---- MODULE Spec2Model ----
(***************************************************************************)
(* Model of RoundRobinLoadBalancer (src/round-robin-load-balancer.js).     *)
(*                                                                         *)
(* One load balancer, its net.Server, its restart timers and the worker    *)
(* supervisors it talks to.  Every handler of the source is an operator    *)
(* from a snapshot record of the whole world to the snapshot after the     *)
(* handler returned, so that handlers calling handlers (handleError ->     *)
(* stop, flushConnectionQueue -> handleConnection, the constructor and the *)
(* restart timer -> start) compose as in the source.  An action of the     *)
(* state machine is one event-loop turn: one public call or one event.     *)
(* The callbacks passed to stop() are called and do nothing else; a worker *)
(* supervisor handed a connection does what the script of the turn says,   *)
(* which is nothing except in the actions named Reentrant.                 *)
(*                                                                         *)
(* The history variables only record what a run did.  Each specification   *)
(* names the groups of history it records (the parameter H of the actions);*)
(* a group it does not record keeps its initial value, so that a property  *)
(* is checked on the program's behaviours and the history it reads alone.  *)
(***************************************************************************)
EXTENDS Integers, Sequences, FiniteSets, TLC

\* ---------------------------------------------------------------- bounds
MaxRing == 3
MaxConns == 3
MaxTimers == 2
MaxCallbacks == 2
MaxReactions == 2
HandCap == 2
SendCap == 2

Workers == {"w1", "w2"}
Addrs == {"a1", "a2"}
Null == "null"

VARIABLES
    \* fields of the load balancer
    state,          \* this.state
    nextState,      \* this.nextState
    ring,           \* this.ring, head first
    queue,          \* this.queue, oldest first
    address,        \* this.address
    timers,         \* restart timeouts set and not yet fired
    listeners,      \* callbacks of stop() waiting in once('standby')
    ticks,          \* callbacks of stop() queued by process.nextTick
    \* the net.Server of the current epoch and the events it still owes
    listenPending,  \* listen() called, neither 'listening' nor 'error' emitted
    accepting,      \* the server is listening: 'connection' events may come
    closePending,   \* a 'close' event is due
    errorPending,   \* an 'error' event of a failed listening server is due
    closeCalls,     \* server.close() calls on the current server
    crashed,        \* a handler threw: the process is gone
    \* history of the run, read by the properties only
    nextConn,       \* id of the next accepted connection
    calls,          \* outbound calls made by the latest turn, in order
    sentAddr,       \* per worker: sendAddress calls this running epoch (capped)
    toldAddr,       \* per worker: the address last sent it this running epoch
    win,            \* per worker: dispatches since the ring last changed
    handed,         \* per connection: times it was handed to a worker (capped)
    removed,        \* workers removed and not added again since
    lastCall,       \* latest explicit lifecycle call: "start", "stop"
    staleTimers,    \* restart timeouts that were pending at the latest stop()
    stopDue,        \* stop() called; since then no 'standby' and no start()
    connSeen,       \* a 'connection' event was handled in this running epoch
    everRunning,    \* 'running' was entered at least once
    viaStarting     \* the current 'stopping' was entered from 'starting'

vars == <<state, nextState, ring, queue, address, timers, listeners, ticks,
          listenPending, accepting, closePending, errorPending, closeCalls, crashed,
          nextConn, calls, sentAddr, toldAddr,
          win, handed, removed, lastCall, staleTimers,
          stopDue, connSeen, everRunning, viaStarting>>

NoCounts == [w \in Workers |-> 0]

NotTold == [w \in Workers |-> Null]

NotHanded == [c \in 1..MaxConns |-> 0]

States == {"standby", "starting", "running", "stopping"}

\* The world as one record, and the step that installs a record.  The field
\* script is what the workers of a turn do when they are handed a connection:
\* one reaction for each handleConnection call made to a worker, in order.
Cur ==
    [state |-> state, nextState |-> nextState, ring |-> ring, queue |-> queue,
     address |-> address, timers |-> timers, listeners |-> listeners,
     ticks |-> ticks, listenPending |-> listenPending,
     accepting |-> accepting, closePending |-> closePending,
     errorPending |-> errorPending, closeCalls |-> closeCalls,
     crashed |-> crashed, nextConn |-> nextConn, calls |-> <<>>,
     sentAddr |-> sentAddr, toldAddr |-> toldAddr, win |-> win,
     handed |-> handed, script |-> <<>>, removed |-> removed,
     lastCall |-> lastCall, staleTimers |-> staleTimers, stopDue |-> stopDue,
     connSeen |-> connSeen,
     everRunning |-> everRunning, viaStarting |-> viaStarting]

Install(m) ==
    /\ state' = m.state
    /\ nextState' = m.nextState
    /\ ring' = m.ring
    /\ queue' = m.queue
    /\ address' = m.address
    /\ timers' = m.timers
    /\ listeners' = m.listeners
    /\ ticks' = m.ticks
    /\ listenPending' = m.listenPending
    /\ accepting' = m.accepting
    /\ closePending' = m.closePending
    /\ errorPending' = m.errorPending
    /\ closeCalls' = m.closeCalls
    /\ crashed' = m.crashed
    /\ nextConn' = m.nextConn
    /\ calls' = m.calls
    /\ sentAddr' = m.sentAddr
    /\ toldAddr' = m.toldAddr
    /\ win' = m.win
    /\ handed' = m.handed
    /\ removed' = m.removed
    /\ lastCall' = m.lastCall
    /\ staleTimers' = m.staleTimers
    /\ stopDue' = m.stopDue
    /\ connSeen' = m.connSeen
    /\ everRunning' = m.everRunning
    /\ viaStarting' = m.viaStarting

\* The history of m outside the groups H, put back to its initial value.
\* The history of a running epoch ends with the epoch, and a stop() is no
\* longer due once 'standby' is reached.
Record(m, H) ==
    [m EXCEPT
        !.calls = IF "calls" \in H THEN @ ELSE <<>>,
        !.viaStarting = IF "calls" \in H THEN @ ELSE FALSE,
        !.removed = IF "ring" \in H THEN @ ELSE {},
        !.win = IF "win" \in H THEN @ ELSE NoCounts,
        !.handed = IF "conn" \in H THEN @ ELSE NotHanded,
        !.sentAddr = IF "addr" \in H /\ m.state = "running"
                     THEN @ ELSE NoCounts,
        !.toldAddr = IF "addr" \in H /\ m.state = "running"
                     THEN @ ELSE NotTold,
        !.connSeen = IF "addr" \in H /\ m.state = "running"
                     THEN @ ELSE FALSE,
        !.lastCall = IF "life" \in H THEN @ ELSE "start",
        !.staleTimers = IF "stale" \in H THEN @ ELSE 0,
        !.stopDue = "due" \in H /\ @ /\ m.state # "standby"]

Commit(m, H) ==
    \E n \in {Record(m, H)} : Install(n)

Min(a, b) == IF a < b THEN a ELSE b

\* F of the value of x.  A handler is entered with a snapshot that is worked
\* out once, however often its body reads it.
With(x, F(_)) == CHOOSE y \in {F(v) : v \in {x}} : TRUE

\* ------------------------------------------------ calls leaving the balancer

\* workerSupervisor.sendAddress(this.port, this.address)
sendAddress(entered, w) ==
    With(entered, LAMBDA m :
        [m EXCEPT !.calls = Append(@, <<"sendAddress", w, m.address>>),
                  !.sentAddr[w] = Min(SendCap, @ + 1),
                  !.toldAddr[w] = m.address])

\* workerSupervisor.sendError(this.port, error)
sendError(m, w) ==
    [m EXCEPT !.calls = Append(@, <<"sendError", w>>)]

RECURSIVE addWorkerSupervisor(_, _)
RECURSIVE removeWorkerSupervisor(_, _)

\* workerSupervisor.handleConnection(this.port, connection): the worker takes
\* the connection and, before it returns, may call back into the balancer
workerHandleConnection(entered, w, c) ==
    With(entered, LAMBDA m :
        LET reaction == IF m.script = <<>> THEN <<"none">> ELSE Head(m.script)
            given == [m EXCEPT
                        !.calls = Append(@, <<"handleConnection", w, c>>),
                        !.win[w] = @ + 1,
                        !.handed[c] = Min(HandCap, @ + 1),
                        !.script = IF @ = <<>> THEN @ ELSE Tail(@)]
        IN  IF reaction[1] = "add" THEN
                addWorkerSupervisor(given, reaction[2])
            ELSE IF reaction[1] = "remove" THEN
                removeWorkerSupervisor(given, reaction[2])
            ELSE given)

\* net.createServer(); server.on(...); server.listen(...)
serverListen(m) ==
    [m EXCEPT !.calls = Append(@, <<"listen">>),
              !.listenPending = TRUE,
              !.accepting = FALSE,
              !.closeCalls = 0]

\* server.close(): the server stops accepting and owes one 'close' event
serverClose(m) ==
    [m EXCEPT !.calls = Append(@, <<"close">>),
              !.closeCalls = @ + 1,
              !.accepting = FALSE,
              !.closePending = TRUE]

\* ring.forEach(f), f one of sendAddress and sendError
RECURSIVE forEachSendAddress(_, _)
forEachSendAddress(m, r) ==
    IF r = <<>> THEN m
    ELSE forEachSendAddress(sendAddress(m, Head(r)), Tail(r))

RECURSIVE forEachSendError(_, _)
forEachSendError(m, r) ==
    IF r = <<>> THEN m
    ELSE forEachSendError(sendError(m, Head(r)), Tail(r))

\* ------------------------------------------------------- the balancer's code

\* A callback of stop() is called.
callback(m) ==
    [m EXCEPT !.calls = Append(@, <<"callback">>)]

\* this.emit('standby'): the callbacks registered with once() are called,
\* oldest first, each removed from the listeners as it is called
RECURSIVE emitStandby(_)
emitStandby(entered) ==
    With(entered, LAMBDA m :
        IF m.listeners = 0 THEN m
        ELSE emitStandby(callback([m EXCEPT !.listeners = @ - 1])))

\* process.nextTick: the queued callbacks are called, oldest first
RECURSIVE runTicks(_)
runTicks(entered) ==
    With(entered, LAMBDA m :
        IF m.ticks = 0 THEN m
        ELSE runTicks(callback([m EXCEPT !.ticks = @ - 1])))

goto(m, st) ==
    IF st = "standby" THEN emitStandby([m EXCEPT !.state = st])
    ELSE [m EXCEPT !.state = st]

\* Mutation: start() in 'starting' asks the system to listen once more.
startRelisten(entered) ==
    With(entered, LAMBDA m :
        IF m.state = "standby" THEN
            serverListen(goto(m, "starting"))
        ELSE IF m.state = "starting" THEN
            serverListen(m)
        ELSE IF m.state = "stopping" THEN
            [m EXCEPT !.nextState = "starting"]
        ELSE m)

\* Mutation: start() in 'stopping' does not wait for 'standby'.
startFromStopping(entered) ==
    With(entered, LAMBDA m :
        IF m.state = "standby" \/ m.state = "stopping" THEN
            serverListen(goto(m, "starting"))
        ELSE m)

start(entered) ==
    With(entered, LAMBDA m :
        IF m.state = "standby" THEN
            serverListen(goto(m, "starting"))
        ELSE IF m.state = "stopping" THEN
            [m EXCEPT !.nextState = "starting"]
        ELSE m)

\* Mutation: the server is closed whatever the state it is stopped from.
stopAlwaysClose(entered) ==
    With(entered, LAMBDA m :
        IF m.state = "running" \/ m.state = "starting" THEN
            [goto(serverClose(m), "stopping") EXCEPT
                !.viaStarting = (m.state = "starting")]
        ELSE m)

stop(entered) ==
    With(entered, LAMBDA m :
        IF m.state = "running" \/ m.state = "starting" THEN
            LET closed == IF m.state = "running" THEN serverClose(m) ELSE m
            IN  [goto(closed, "stopping") EXCEPT
                    !.viaStarting = (m.state = "starting")]
        ELSE m)

\* stop(callback): the callback waits for 'standby', or for the next tick
\* when the balancer is in 'standby' already
stopCallback(entered) ==
    With(entered, LAMBDA m :
        stop(IF m.state # "standby"
             THEN [m EXCEPT !.listeners = @ + 1]
             ELSE [m EXCEPT !.ticks = @ + 1]))

\* Mutation: the connection goes to the head of the ring, which stays there.
handleConnectionNoRotate(entered, c) ==
    With(entered, LAMBDA m :
        IF m.state = "running" /\ Len(m.ring) > 0 THEN
            workerHandleConnection(m, Head(m.ring), c)
        ELSE
            [m EXCEPT !.queue = Append(@, c)])

handleConnection(entered, c) ==
    With(entered, LAMBDA m :
        IF m.state = "running" /\ Len(m.ring) > 0 THEN
            LET workerSupervisor == Head(m.ring)
                rotated ==
                    [m EXCEPT !.ring = Append(Tail(@), workerSupervisor)]
            IN  workerHandleConnection(rotated, workerSupervisor, c)
        ELSE
            [m EXCEPT !.queue = Append(@, c)])

\* this.queue.forEach(...) from index i on: it visits the indexes up to n, the
\* length the queue had when it began, and skips those the queue has lost
RECURSIVE queueForEach(_, _, _)
queueForEach(entered, i, n) ==
    With(entered, LAMBDA m :
        IF i > n THEN m
        ELSE IF i <= Len(m.queue) THEN
            queueForEach(handleConnection(m, m.queue[i]), i + 1, n)
        ELSE queueForEach(m, i + 1, n))

flushConnectionQueue(entered) ==
    With(entered, LAMBDA m :
        IF m.state = "running" /\ Len(m.ring) > 0 THEN
            [queueForEach(m, 1, Len(m.queue)) EXCEPT !.queue = <<>>]
        ELSE m)

\* Mutation: the worker joins the ring and the backlog is left as it is.
addWorkerSupervisorNoFlush(entered, w) ==
    With(entered, LAMBDA m :
        LET pushed == [m EXCEPT !.ring = Append(@, w),
                                !.removed = @ \ {w},
                                !.win = NoCounts]
        IN  IF m.state = "running" THEN sendAddress(pushed, w) ELSE pushed)

\* Mutation: a worker that joins a running balancer is not told the address.
addWorkerSupervisorNoAddress(entered, w) ==
    With(entered, LAMBDA m :
        flushConnectionQueue([m EXCEPT !.ring = Append(@, w),
                                       !.removed = @ \ {w},
                                       !.win = NoCounts]))

addWorkerSupervisor(entered, w) ==
    With(entered, LAMBDA m :
        LET pushed == [m EXCEPT !.ring = Append(@, w),
                                !.removed = @ \ {w},
                                !.win = NoCounts]
            told == IF m.state = "running" THEN sendAddress(pushed, w)
                    ELSE pushed
        IN  flushConnectionQueue(told))

\* ring.indexOf(w), 0 when absent
RECURSIVE indexOf(_, _)
indexOf(r, w) ==
    IF r = <<>> THEN 0
    ELSE IF Head(r) = w THEN 1
    ELSE LET i == indexOf(Tail(r), w) IN IF i = 0 THEN 0 ELSE i + 1

\* ring.splice(index, 1)
splice(r, i) ==
    [k \in 1..(Len(r) - 1) |-> IF k < i THEN r[k] ELSE r[k + 1]]

removeWorkerSupervisor(entered, w) ==
    With(entered, LAMBDA m :
        LET index == indexOf(m.ring, w)
            gone == [m EXCEPT !.removed = @ \cup {w}]
        IN  IF index >= 1
            THEN [gone EXCEPT !.ring = splice(@, index), !.win = NoCounts]
            ELSE gone)

\* Mutation: 'running' is entered and the granted address is not captured.
handleListeningNoAddress(entered, granted) ==
    With(entered, LAMBDA m :
        IF m.state = "starting" THEN
            LET running == [goto(m, "running") EXCEPT
                                !.everRunning = TRUE,
                                !.connSeen = FALSE,
                                !.sentAddr = NoCounts,
                                !.toldAddr = NotTold]
            IN  flushConnectionQueue(forEachSendAddress(running, m.ring))
        ELSE IF m.state = "stopping" THEN
            serverClose(m)
        ELSE m)

\* Mutation: 'running' is entered and the ring is not told the address.
handleListeningNoBroadcast(entered, granted) ==
    With(entered, LAMBDA m :
        IF m.state = "starting" THEN
            LET running == [goto(m, "running") EXCEPT
                                !.address = granted,
                                !.everRunning = TRUE,
                                !.connSeen = FALSE,
                                !.sentAddr = NoCounts,
                                !.toldAddr = NotTold]
            IN  flushConnectionQueue(running)
        ELSE IF m.state = "stopping" THEN
            serverClose(m)
        ELSE m)

\* server.address() returns the address the system granted
handleListening(entered, granted) ==
    With(entered, LAMBDA m :
        IF m.state = "starting" THEN
            LET running == [goto(m, "running") EXCEPT
                                !.address = granted,
                                !.everRunning = TRUE,
                                !.connSeen = FALSE,
                                !.sentAddr = NoCounts,
                                !.toldAddr = NotTold]
            IN  flushConnectionQueue(forEachSendAddress(running, m.ring))
        ELSE IF m.state = "stopping" THEN
            serverClose(m)
        ELSE m)

\* throw error: the exception leaves the event handler and ends the process
handleError(entered) ==
    With(entered, LAMBDA m :
        IF m.state = "running" \/ m.state = "stopping" THEN
            stop(forEachSendError(m, m.ring))
        ELSE IF m.state = "starting" THEN
            stop(m)
        ELSE
            [m EXCEPT !.crashed = TRUE])

\* Mutation: the latched restart is dropped without a timeout being set.
handleCloseNoTimeout(entered) ==
    With(entered, LAMBDA m :
        IF m.state = "stopping" \/ m.state = "running" THEN
            [goto(m, "standby") EXCEPT !.viaStarting = FALSE,
                                       !.nextState = Null]
        ELSE
            [m EXCEPT !.crashed = TRUE])

\* Mutation: the timeout is set and the latched restart is left in place.
handleCloseKeepLatch(entered) ==
    With(entered, LAMBDA m :
        IF m.state = "stopping" \/ m.state = "running" THEN
            LET idle == [goto(m, "standby") EXCEPT !.viaStarting = FALSE]
            IN  IF m.nextState = "starting"
                THEN [idle EXCEPT !.timers = Min(MaxTimers, @ + 1)]
                ELSE idle
        ELSE
            [m EXCEPT !.crashed = TRUE])

handleClose(entered) ==
    With(entered, LAMBDA m :
        IF m.state = "stopping" \/ m.state = "running" THEN
            LET idle == [goto(m, "standby") EXCEPT !.viaStarting = FALSE]
            IN  IF m.nextState = "starting"
                THEN [idle EXCEPT !.timers = @ + 1, !.nextState = Null]
                ELSE idle
        ELSE
            [m EXCEPT !.crashed = TRUE])

handleRestartTimeout(m) ==
    start(m)

\* ------------------------------------------------------------------- actions

\* new RoundRobinLoadBalancer(spec): the fields, then this.start()
Init ==
    /\ state = "starting"
    /\ nextState = Null
    /\ ring = <<>>
    /\ queue = <<>>
    /\ address = Null
    /\ timers = 0
    /\ listeners = 0
    /\ ticks = 0
    /\ listenPending = TRUE
    /\ accepting = FALSE
    /\ closePending = FALSE
    /\ errorPending = FALSE
    /\ closeCalls = 0
    /\ crashed = FALSE
    /\ nextConn = 1
    /\ calls = <<>>
    /\ sentAddr = NoCounts
    /\ toldAddr = NotTold
    /\ win = NoCounts
    /\ handed = NotHanded
    /\ removed = {}
    /\ lastCall = "start"
    /\ staleTimers = 0
    /\ stopDue = FALSE
    /\ connSeen = FALSE
    /\ everRunning = FALSE
    /\ viaStarting = FALSE

\* lb.start()
Start(H) ==
    /\ ~crashed
    /\ (state = "stopping" /\ nextState = Null) => timers < MaxTimers
    /\ Commit([start(Cur) EXCEPT !.lastCall = "start",
                                 !.stopDue = FALSE], H)

\* lb.stop()
Stop(H) ==
    /\ ~crashed
    /\ Commit([stop(Cur) EXCEPT !.lastCall = "stop",
                                !.staleTimers = timers,
                                !.stopDue = TRUE], H)

\* lb.stop(callback)
StopCallback(H) ==
    /\ ~crashed
    /\ listeners + ticks < MaxCallbacks
    /\ Commit([stopCallback(Cur) EXCEPT !.lastCall = "stop",
                                        !.staleTimers = timers,
                                        !.stopDue = TRUE], H)

\* the tick queue runs, to its end, the callbacks of stop() queued in it
NextTick(H) ==
    /\ ~crashed
    /\ ticks > 0
    /\ Commit(runTicks(Cur), H)

\* lb.addWorkerSupervisor(w)
AddWorkerSupervisor(H) ==
    /\ ~crashed
    /\ Len(ring) < MaxRing
    /\ \E w \in Workers : Commit(addWorkerSupervisor(Cur, w), H)

\* What a worker may do inside its handleConnection, and what the workers of
\* one turn do, dispatch after dispatch.
Reactions ==
    {<<"none">>} \cup {<<call, w>> : call \in {"add", "remove"}, w \in Workers}

Scripts ==
    UNION {[1..n -> Reactions] : n \in 1..MaxReactions}

Adds(script) ==
    Cardinality({i \in DOMAIN script : script[i][1] = "add"})

\* lb.addWorkerSupervisor(w), the workers calling back as they are handed
\* the backlog
AddWorkerSupervisorReentrant(H) ==
    /\ ~crashed
    /\ \E w \in Workers, script \in Scripts :
        /\ Len(ring) + 1 + Adds(script) <= MaxRing
        /\ Commit(addWorkerSupervisor([Cur EXCEPT !.script = script], w), H)

\* lb.removeWorkerSupervisor(w)
RemoveWorkerSupervisor(H) ==
    /\ ~crashed
    /\ \E w \in Workers : Commit(removeWorkerSupervisor(Cur, w), H)

\* An event is handled when the tick queue is empty: callbacks queued by
\* process.nextTick run before the event loop goes on.

\* the server emits 'listening': the system granted an address
Listening(H) ==
    /\ ~crashed
    /\ ticks = 0
    /\ listenPending
    /\ \E granted \in Addrs :
        Commit(handleListening(
            [Cur EXCEPT !.listenPending = FALSE, !.accepting = TRUE],
            granted), H)

\* the server emits 'listening', the workers calling back as they are handed
\* the backlog
ListeningReentrant(H) ==
    /\ ~crashed
    /\ ticks = 0
    /\ listenPending
    /\ \E granted \in Addrs, script \in Scripts :
        /\ Len(ring) + Adds(script) <= MaxRing
        /\ Commit(handleListening(
                [Cur EXCEPT !.listenPending = FALSE, !.accepting = TRUE,
                            !.script = script], granted), H)

\* the server emits 'error' because listen() failed; no 'close' follows
ListenError(H) ==
    /\ ~crashed
    /\ ticks = 0
    /\ listenPending
    /\ Commit(handleError([Cur EXCEPT !.listenPending = FALSE]), H)

\* the server emits 'connection'
Connection(H) ==
    /\ ~crashed
    /\ ticks = 0
    /\ accepting
    /\ nextConn <= MaxConns
    /\ Commit(handleConnection(
            [Cur EXCEPT !.nextConn = @ + 1,
                        !.connSeen = @ \/ state = "running"], nextConn), H)

\* the server emits 'connection', the worker calling back as it is handed the
\* connection
ConnectionReentrant(H) ==
    /\ ~crashed
    /\ ticks = 0
    /\ accepting
    /\ nextConn <= MaxConns
    /\ \E script \in Scripts :
        /\ Len(ring) + Adds(script) <= MaxRing
        /\ Commit(handleConnection(
                [Cur EXCEPT !.nextConn = @ + 1,
                            !.connSeen = @ \/ state = "running",
                            !.script = script], nextConn), H)

\* a listening server dies: it owes an 'error' and a 'close', in either order
ServerFail(H) ==
    /\ ~crashed
    /\ accepting
    /\ ~errorPending
    /\ Commit([Cur EXCEPT !.accepting = FALSE,
                          !.errorPending = TRUE,
                          !.closePending = TRUE], H)

\* the server emits the 'error' of its failure
Error(H) ==
    /\ ~crashed
    /\ ticks = 0
    /\ errorPending
    /\ Commit(handleError([Cur EXCEPT !.errorPending = FALSE]), H)

\* the server emits 'close'
Close(H) ==
    /\ ~crashed
    /\ ticks = 0
    /\ closePending
    /\ Commit(handleClose([Cur EXCEPT !.closePending = FALSE]), H)

\* a restart timeout fires (timeouts of one delay fire oldest first)
RestartTimeout(H) ==
    /\ ~crashed
    /\ ticks = 0
    /\ timers > 0
    /\ Commit(handleRestartTimeout(
            [Cur EXCEPT !.timers = @ - 1,
                        !.staleTimers = IF @ > 0 THEN @ - 1 ELSE 0]), H)

Next(H) ==
    \/ Start(H)
    \/ Stop(H)
    \/ AddWorkerSupervisor(H)
    \/ RemoveWorkerSupervisor(H)
    \/ Listening(H)
    \/ ListenError(H)
    \/ Connection(H)
    \/ ServerFail(H)
    \/ Error(H)
    \/ Close(H)
    \/ RestartTimeout(H)

\* The program alone: no history recorded.
Spec == Init /\ [][Next({})]_vars

\* The program and the calls each turn makes.
SpecCalls == Init /\ [][Next({"calls"})]_vars

\* The program, the calls each turn makes and the workers removed from the ring.
SpecRing == Init /\ [][Next({"calls", "ring"})]_vars

\* The program and the dispatch counts of the current ring.
SpecWin == Init /\ [][Next({"win"})]_vars

\* The program and the sendAddress calls of the running epoch.
SpecAddr == Init /\ [][Next({"addr"})]_vars

\* The program, the calls each turn makes and the addresses sent to the
\* workers in the running epoch.
SpecTold == Init /\ [][Next({"calls", "addr"})]_vars

\* The program and the latest explicit lifecycle call.
SpecLife == Init /\ [][Next({"life"})]_vars

\* The program and the restart timeouts a stop() found pending.
SpecStale == Init /\ [][Next({"stale"})]_vars

\* The scheduling the event loop and the system give: an outstanding listen
\* is answered by 'listening' or 'error', a due 'close' or 'error' is
\* emitted, a set timeout fires.
Fairness(H) ==
    /\ WF_vars(Listening(H) \/ ListenError(H))
    /\ WF_vars(Close(H))
    /\ WF_vars(Error(H))
    /\ WF_vars(RestartTimeout(H))

\* The program and the stop() calls still due, under that scheduling.
FairSpec == Init /\ [][Next({"due"})]_vars /\ Fairness({"due"})

\* The runs in which no listen fails and no listening server dies.
HealthyNext(H) ==
    \/ Start(H)
    \/ Stop(H)
    \/ AddWorkerSupervisor(H)
    \/ RemoveWorkerSupervisor(H)
    \/ Listening(H)
    \/ Connection(H)
    \/ Close(H)
    \/ RestartTimeout(H)

HealthySpec ==
    /\ Init
    /\ [][HealthyNext({"life"})]_vars
    /\ WF_vars(Listening({"life"}))
    /\ WF_vars(Close({"life"}))
    /\ WF_vars(RestartTimeout({"life"}))

\* The program with stop() called with a callback as well.
CallbackNext(H) ==
    \/ Next(H)
    \/ StopCallback(H)
    \/ NextTick(H)

\* The program with stop callbacks, under the scheduling of Fairness and a
\* tick queue that runs what is queued.
CallbackSpec ==
    /\ Init
    /\ [][CallbackNext({})]_vars
    /\ Fairness({})
    /\ WF_vars(NextTick({}))

\* The program with workers that call addWorkerSupervisor and
\* removeWorkerSupervisor from inside their handleConnection.
ReentrantNext(H) ==
    \/ Next(H)
    \/ AddWorkerSupervisorReentrant(H)
    \/ ListeningReentrant(H)
    \/ ConnectionReentrant(H)

\* That program and the times each connection was handed to a worker.
SpecReentrant == Init /\ [][ReentrantNext({"conn"})]_vars

TypeOK ==
    /\ state \in States
    /\ nextState \in {Null, "starting"}
    /\ Len(ring) <= MaxRing
    /\ Len(queue) <= MaxConns
    /\ address \in Addrs \cup {Null}
    /\ timers \in 0..MaxTimers
    /\ listeners + ticks \in 0..MaxCallbacks
    /\ listeners > 0 => state # "standby"
    /\ closeCalls \in 0..1
    /\ accepting => state = "running"
    /\ listenPending => state \in {"starting", "stopping"}
    /\ closePending => state \in {"running", "stopping"}
    /\ viaStarting => state = "stopping"


\* ------------------------------------------------------------ the properties

Range(s) == {s[i] : i \in DOMAIN s}

\* The calls of the latest turn whose name is kind.
CallsOf(kind) == {i \in DOMAIN calls : calls[i][1] = kind}

\* The workers handed a connection by the latest turn.
HandedTo == {calls[i][2] : i \in CallsOf("handleConnection")}

\* C1 Backlog emptiness: after every turn, a running balancer whose ring is
\* not empty has an empty connection queue.
BacklogEmptiness ==
    (state = "running" /\ Len(ring) > 0) => queue = <<>>

\* A turn that told a worker the address and then drained the backlog to it.
BacklogDrained ==
    /\ state = "running" /\ Len(ring) > 0 /\ queue = <<>>
    /\ CallsOf("sendAddress") # {}
    /\ CallsOf("handleConnection") # {}

\* C2 Ring uniqueness: no worker supervisor is in the ring more than once.
RingUniqueness ==
    \A i, j \in DOMAIN ring : i # j => ring[i] # ring[j]

\* C3 A worker removed from the ring, and not added again, is handed no
\* connection by any later turn.
NoConnectionAfterRemove ==
    \A w \in removed : w \notin HandedTo


\* C4 Restart-timer cancellation: a restart timeout that was pending when
\* stop() was called never fires (never runs start()).
RestartTimerCancelled ==
    [][staleTimers > 0 => timers' >= timers]_vars

\* C5 Stop convergence: after stop() is called the balancer reaches 'standby'
\* (unless start() is called first).
StopConvergence ==
    stopDue ~> ~stopDue

\* start() was called during 'stopping' and stop() was not called since.
Latched ==
    state = "stopping" /\ nextState = "starting" /\ lastCall = "start"

\* C6 Restart latching: after start() during 'stopping', and with no stop()
\* called afterwards, the balancer reaches 'standby' and then 'running' when
\* its events are delivered, its timeout fires and its listens succeed.
RestartLatching ==
    /\ Latched ~> (state = "standby" \/ lastCall = "stop")
    /\ Latched ~> (state = "running" \/ lastCall = "stop")
    /\ [][Latched => state' \in {"stopping", "standby"}]_vars

\* The latched restart reached 'standby' and set its timeout.
RestartArmed ==
    state = "standby" /\ timers > 0 /\ nextState = Null /\ lastCall = "start"

\* C7 as stated: the address is set exactly in 'running' and 'stopping'.
AddressIffActive ==
    (address # Null) <=> (state \in {"running", "stopping"})

\* C7 as amended: the address is set from the first entry into 'running'
\* on, and is never cleared; in particular it is set whenever 'running'.
AddressSetOnceRunning ==
    /\ state = "running" => address # Null
    /\ (address # Null) <=> everRunning

\* Back in 'standby' after a running epoch, the address still set.
AddressKeptInStandby ==
    state = "standby" /\ address # Null

\* C8 Round-robin fairness: while the ring's membership is unchanged, the
\* dispatch counts of any two of its members differ by at most one.
RoundRobinFairness ==
    \A a, b \in Range(ring) : win[a] - win[b] <= 1

\* The turn that handles the first 'connection' event of a running epoch.
FirstConnection ==
    ~connSeen /\ connSeen'

\* C9 as stated: at the first 'connection' event of a running epoch every
\* worker in the ring was sent the address exactly once in the epoch.
AddressExactlyOnce ==
    [][FirstConnection => \A w \in Range(ring) : sentAddr[w] = 1]_vars

\* C9 as amended: at the first 'connection' event of a running epoch every
\* worker in the ring was sent the address at least once in the epoch.
AddressAtLeastOnce ==
    [][FirstConnection => \A w \in Range(ring) : sentAddr[w] >= 1]_vars

\* A connection event was handled in an epoch whose ring is not empty.
FirstConnectionSeen ==
    /\ state = "running" /\ connSeen /\ ring # <<>>
    /\ \A w \in Range(ring) : sentAddr[w] >= 1

EntersStandby ==
    state # "standby" /\ state' = "standby"

\* C11 Stop callback: a callback passed to stop() outside 'standby' is called
\* by the turn that next enters 'standby' and by no other turn, a callback
\* passed in 'standby' is called by the next tick, and every callback passed
\* is called in the end.
StopCallbackOnce ==
    /\ [][EntersStandby => listeners' = 0]_vars
    /\ [][listeners' < listeners => EntersStandby]_vars
    /\ [][listeners' > listeners =>
            (state # "standby" /\ listeners' = listeners + 1
                /\ ticks' = ticks)]_vars
    /\ [][ticks' > ticks =>
            (state = "standby" /\ ticks' = ticks + 1
                /\ listeners' = listeners)]_vars
    /\ [][ticks' < ticks =>
            (ticks' = 0 /\ UNCHANGED <<state, listeners>>)]_vars
    /\ (listeners > 0) ~> (listeners = 0)
    /\ (ticks > 0) ~> (ticks = 0)

\* C12 Latch invariant: after every turn, nextState is 'starting' only while
\* the state is 'stopping'.
LatchOnlyWhileStopping ==
    nextState = "starting" => state = "stopping"

\* A latched restart was taken up by the 'close' turn: the timeout is set,
\* the latch is cleared and the balancer is out of 'stopping'.
LatchTakenUp ==
    state = "standby" /\ timers > 0 /\ nextState = Null /\ ~closePending

\* The sendError calls the latest turn made to w.
ErrorsSentTo(w) == {i \in CallsOf("sendError") : calls[i][2] = w}

\* The turn that handles the 'error' of a failed server in 'running'.
ErrorInRunning ==
    state = "running" /\ errorPending /\ ~errorPending'

\* C13 Error in 'running': the turn that handles the 'error' sends sendError
\* exactly once to every worker in the ring, closes the server and enters
\* 'stopping'; 'stopping' is left for 'standby' only, by the 'close' turn;
\* and no turn that begins in 'stopping' or 'standby' hands a connection to a
\* worker.
ErrorFanOut ==
    /\ [][ErrorInRunning =>
            /\ \A w \in Range(ring) : Cardinality(ErrorsSentTo(w)') = 1
            /\ \A i \in CallsOf("sendError")' : calls'[i][2] \in Range(ring)
            /\ Cardinality(CallsOf("close")') = 1
            /\ state' = "stopping" /\ closePending']_vars
    /\ [][(state = "stopping" /\ state' # "stopping") =>
            (state' = "standby" /\ closePending /\ ~closePending')]_vars
    /\ [][(state = "stopping" \/ state = "standby") => HandedTo' = {}]_vars

\* C14 start() idempotence: in every reachable state start() called twice
\* gives what start() called once gives; in 'starting' and 'running' start()
\* changes nothing and makes no call; a listen is outstanding or a server is
\* accepting, never both, and a listen is asked for only when no listen is
\* outstanding, no server is accepting and no 'close' is due.
StartIdempotent ==
    /\ [](start(start(Cur)) = start(Cur))
    /\ []((state = "starting" \/ state = "running") => start(Cur) = Cur)
    /\ []~(listenPending /\ accepting)
    /\ [][(listenPending' /\ ~listenPending) =>
            (~accepting /\ ~closePending)]_vars

\* start() was called in 'standby' after an earlier epoch: a listen is
\* outstanding, and another start() would change nothing.
Restarted ==
    /\ state = "starting" /\ listenPending /\ everRunning
    /\ start(Cur) = Cur

\* The changes of state the goto calls of the code can make.
Edges ==
    {<<"standby", "starting">>, <<"starting", "running">>,
     <<"starting", "stopping">>, <<"running", "stopping">>,
     <<"running", "standby">>, <<"stopping", "standby">>}

AddressBeforeDispatch ==
    [][(\A i \in CallsOf("handleConnection")' :
        /\ state' = "running" /\ address' # Null
        /\ \/ \E j \in CallsOf("sendAddress")' :
                /\ j < i
                /\ calls'[j][2] = calls'[i][2]
                /\ calls'[j][3] = address'
           \/ /\ state = "running"
              /\ toldAddr[calls'[i][2]] = address
              /\ address' = address)]_vars

\* A turn handed a connection to a worker told the address by an earlier turn.
DispatchedAfterTold ==
    /\ state = "running" /\ HandedTo # {} /\ CallsOf("sendAddress") = {}
    /\ \A w \in HandedTo : toldAddr[w] = address

\* r after k round-robin steps: k times, the head goes to the end.
RECURSIVE Rotate(_, _)
Rotate(r, k) ==
    IF k = 0 \/ r = <<>> THEN r
    ELSE Rotate(Append(Tail(r), Head(r)), k - 1)

\* The handleConnection calls of the latest turn, in order.
Dispatches ==
    SelectSeq(calls, LAMBDA call : call[1] = "handleConnection")

\* A turn that finds a backlog and ends in 'running' with a ring that is not
\* empty: 'running' is entered, or a worker joins the empty ring.
DrainTurn ==
    queue # <<>> /\ state' = "running" /\ ring' # <<>>

\* The ring the drain of the turn begins with.
DrainRing ==
    IF ring = <<>> THEN ring' ELSE ring

\* C17 Backlog drain order: a turn that drains the backlog hands over every
\* queued connection, in queue order, the k-th to the k-th worker of the
\* rotation that begins at the head of the ring, leaves the queue empty and
\* the ring rotated once per connection.
DrainOrder ==
    [][DrainTurn =>
        /\ queue' = <<>>
        /\ Len(Dispatches') = Len(queue)
        /\ \A k \in 1..Len(queue) :
                Dispatches'[k] =
                    <<"handleConnection",
                      DrainRing[((k - 1) % Len(DrainRing)) + 1], queue[k]>>
        /\ ring' = Rotate(DrainRing, Len(queue))]_vars

\* A backlog of two or more connections was drained across two workers.
DrainedAcrossRing ==
    /\ state = "running" /\ queue = <<>>
    /\ Len(Dispatches) >= 2 /\ Cardinality(HandedTo) >= 2

InBacklog(c) == {i \in DOMAIN queue : queue[i] = c}

\* C18 Connection conservation: after every turn, every connection accepted
\* so far is in the backlog once and was handed to no worker, or is not in
\* the backlog and was handed to a worker once.
ConnectionConservation ==
    \A c \in 1..(nextConn - 1) : Cardinality(InBacklog(c)) + handed[c] = 1

\* C19 No fatal assertion on a server failure: whatever the order in which
\* the 'error' and the 'close' of a failed server are handled, no handler
\* reaches its throw.
NoFatalThrow ==
    ~crashed

\* C20 Stop is final: once the balancer is in 'standby' with stop() its
\* latest lifecycle call, it stays in 'standby' and asks for no listen for as
\* long as start() is not called.
StopIsFinal ==
    [][(state = "standby" /\ lastCall = "stop" /\ lastCall' = "stop") =>
        (state' = "standby" /\ ~listenPending')]_vars

====
